---- MODULE Spec2Model ----
(***************************************************************************)
(* Model of the PDF outline extractor of Challenge_1b:                     *)
(*   process_pdfs.py  PDFOutlineExtractor, process_single_pdf, main        *)
(*   mergeOutput.py   the loop over process_single_pdf                     *)
(*                                                                         *)
(* Texts are sequences of one-character strings, so that the regular       *)
(* expressions, strip(), isalpha(), isupper() and len() of the source are  *)
(* computed character by character.  The non-ASCII characters of the       *)
(* source's character classes are written by their code point name         *)
(* ("U+2022" is the bullet).  Font sizes are whole points; a line's        *)
(* average size is the exact quotient [num, den].  An Optional value is a  *)
(* sequence of length 0 (None) or 1.                                       *)
(***************************************************************************)
EXTENDS Integers, Sequences, FiniteSets, TLC

(***************************************************************************)
(* Characters and str methods                                              *)
(***************************************************************************)
UpperSeq == <<"A","B","C","D","E","F","G","H","I","J","K","L","M",
              "N","O","P","Q","R","S","T","U","V","W","X","Y","Z">>

LowerSeq == <<"a","b","c","d","e","f","g","h","i","j","k","l","m",
              "n","o","p","q","r","s","t","u","v","w","x","y","z">>

Upper == {UpperSeq[i] : i \in DOMAIN UpperSeq}

Lower == {LowerSeq[i] : i \in DOMAIN LowerSeq}

Letters == Upper \cup Lower

Digits == {"0","1","2","3","4","5","6","7","8","9"}

\* \s of the re module, restricted to the characters the inputs use
Space == {" ", "\t", "\n"}

\* [•▪▫‣⁃] of clean_heading_text and is_noise
Bullets == {"U+2022", "U+25AA", "U+25AB", "U+2023", "U+2043"}

\* [-–—] of clean_heading_text
Dashes == {"-", "U+2013", "U+2014"}

\* [.\-•▪▫‣⁃] of is_noise
Leaders == {".", "-"} \cup Bullets

ToLower(c) ==
  IF c \in Upper
    THEN LowerSeq[CHOOSE i \in DOMAIN UpperSeq : UpperSeq[i] = c]
    ELSE c

LowerStr(s) == [i \in DOMAIN s |-> ToLower(s[i])]

\* length of the longest run of characters of cls that starts at s[i]
RECURSIVE Run(_, _, _)
Run(s, i, cls) ==
  IF i <= Len(s) /\ s[i] \in cls THEN 1 + Run(s, i + 1, cls) ELSE 0

\* length of the longest run of characters of cls that ends at s[i]
RECURSIVE RunBack(_, _, _)
RunBack(s, i, cls) ==
  IF i >= 1 /\ s[i] \in cls THEN 1 + RunBack(s, i - 1, cls) ELSE 0

\* str.strip()
Strip(s) ==
  LET a == Run(s, 1, Space)
      b == RunBack(s, Len(s), Space)
  IN  IF a = Len(s) THEN <<>> ELSE SubSeq(s, a + 1, Len(s) - b)

\* str.isalpha()
IsAlpha(s) == Len(s) > 0 /\ \A i \in DOMAIN s : s[i] \in Letters

\* str.isupper(): at least one cased character, and no lowercase one
IsUpperStr(s) ==
  /\ \E i \in DOMAIN s : s[i] \in Upper
  /\ \A i \in DOMAIN s : s[i] \notin Lower

\* the characters of s that are not in cls, in order
RECURSIVE Without(_, _)
Without(s, cls) ==
  IF s = <<>> THEN <<>>
  ELSE IF Head(s) \in cls THEN Without(Tail(s), cls)
  ELSE <<Head(s)>> \o Without(Tail(s), cls)

\* re.sub(r'\s+', ' ', s)
RECURSIVE CollapseSpace(_)
CollapseSpace(s) ==
  IF s = <<>> THEN <<>>
  ELSE IF Head(s) \in Space
    THEN <<" ">> \o CollapseSpace(SubSeq(s, Run(s, 1, Space) + 1, Len(s)))
    ELSE <<Head(s)>> \o CollapseSpace(Tail(s))

(***************************************************************************)
(* The regular expressions of the source, matched with re.match            *)
(***************************************************************************)
Chapter == <<"c","h","a","p","t","e","r">>

\* r'^chapter\s+\d+' with re.IGNORECASE
MatchChapter(s) ==
  /\ Len(s) >= 7
  /\ LowerStr(SubSeq(s, 1, 7)) = Chapter
  /\ LET w == Run(s, 8, Space)
     IN  w >= 1 /\ Run(s, 8 + w, Digits) >= 1

\* r'^\d+\.\s'
MatchNum1(s) ==
  LET d == Run(s, 1, Digits)
  IN  /\ d >= 1
      /\ Len(s) >= d + 2
      /\ s[d + 1] = "."
      /\ s[d + 2] \in Space

\* r'^\d+\.\d+\s'
MatchNum2(s) ==
  LET d == Run(s, 1, Digits)
      e == Run(s, d + 2, Digits)
  IN  /\ d >= 1
      /\ Len(s) >= d + 1
      /\ s[d + 1] = "."
      /\ e >= 1
      /\ Len(s) >= d + e + 2
      /\ s[d + e + 2] \in Space

\* r'^\d+\.\d+\.\d+\s'
MatchNum3(s) ==
  LET d == Run(s, 1, Digits)
      e == Run(s, d + 2, Digits)
      f == Run(s, d + e + 3, Digits)
  IN  /\ d >= 1
      /\ Len(s) >= d + 1
      /\ s[d + 1] = "."
      /\ e >= 1
      /\ Len(s) >= d + e + 2
      /\ s[d + e + 2] = "."
      /\ f >= 1
      /\ Len(s) >= d + e + f + 3
      /\ s[d + e + f + 3] \in Space

\* r'^[A-Z][A-Z\s]{2,}$' with re.IGNORECASE
MatchAllCaps(s) ==
  /\ Len(s) >= 3
  /\ s[1] \in Letters
  /\ \A i \in 2..Len(s) : s[i] \in Letters \cup Space

\* r'^[A-Z][a-z]+\s[A-Z][a-z]+' with re.IGNORECASE
MatchTitleCase(s) ==
  LET r == Run(s, 2, Letters)
  IN  /\ Len(s) >= 1
      /\ s[1] \in Letters
      /\ r >= 1
      /\ Len(s) >= r + 4
      /\ s[r + 2] \in Space
      /\ s[r + 3] \in Letters
      /\ s[r + 4] \in Letters

(***************************************************************************)
(* EnhancedPDFOutlineExtractor                                             *)
(***************************************************************************)
\* r'^[.\-•▪▫‣⁃]{5,}$'
MatchLeaders(s) == Len(s) >= 5 /\ \A i \in DOMAIN s : s[i] \in Leaders

\* r'^\d{1,2}\.?$'
MatchPageNumber(s) ==
  LET d == Run(s, 1, Digits)
  IN  /\ d \in {1, 2}
      /\ \/ Len(s) = d
         \/ Len(s) = d + 1 /\ s[d + 1] = "."

is_noise(text) ==
  LET t == Strip(text)
  IN  IF MatchLeaders(t) THEN TRUE
      ELSE IF MatchPageNumber(t) THEN TRUE
      ELSE IF Len(t) <= 3 /\ ~IsAlpha(t) THEN TRUE
      ELSE FALSE

(***************************************************************************)
(* Exact quotients: a line's average font size is num / den, den > 0       *)
(***************************************************************************)
Quot(n, d) == [num |-> n, den |-> d]

\* q >= n and q > n for a whole number n
QGeq(q, n) == q.num >= n * q.den

QGt(q, n) == q.num > n * q.den

\* p > q and p = q for two quotients
QGreater(p, q) == p.num * q.den > q.num * p.den

QEqual(p, q) == p.num * q.den = q.num * p.den

(***************************************************************************)
(* PDFOutlineExtractor: the pure methods                                   *)
(***************************************************************************)
\* self.font_size_threshold of __init__
DefaultThresholds == [title |-> 16, h1 |-> 14, h2 |-> 12, h3 |-> 10]

\* self.common_heading_patterns, tried in order with re.IGNORECASE
is_heading_by_pattern(text) ==
  LET text_stripped == Strip(text)
  IN  \/ MatchChapter(text_stripped)
      \/ MatchNum1(text_stripped)
      \/ MatchNum2(text_stripped)
      \/ MatchNum3(text_stripped)
      \/ MatchAllCaps(text_stripped)
      \/ MatchTitleCase(text_stripped)

\* the method has only its docstring for a body: the statements written under
\* it are indented as class-level code, so every call returns None
extract_title_from_first_page(d) == <<>>

\* classify_heading_level with the font-size signals tried before the patterns
classify_font_first(th, font_size, is_bold, text, page_no) ==
  LET t == Strip(text)
  IN  IF QGeq(font_size, th.h1) THEN <<"H1">>
      ELSE IF QGeq(font_size, th.h2) THEN <<"H2">>
      ELSE IF QGeq(font_size, th.h3) THEN <<"H3">>
      ELSE IF MatchChapter(t) THEN <<"H1">>
      ELSE IF MatchNum1(t) THEN <<"H1">>
      ELSE IF MatchNum2(t) THEN <<"H2">>
      ELSE IF MatchNum3(t) THEN <<"H3">>
      ELSE IF is_bold /\ Len(t) < 100 /\ QGeq(font_size, 11) THEN <<"H2">>
      ELSE IF is_bold /\ Len(t) < 100 /\ QGeq(font_size, 9) THEN <<"H3">>
      ELSE <<>>

classify_heading_level(th, font_size, is_bold, text, page_no) ==
  LET t == Strip(text)
  IN  IF MatchChapter(t) THEN <<"H1">>
      ELSE IF MatchNum1(t) THEN <<"H1">>
      ELSE IF MatchNum2(t) THEN <<"H2">>
      ELSE IF MatchNum3(t) THEN <<"H3">>
      ELSE IF QGeq(font_size, th.h1) THEN <<"H1">>
      ELSE IF QGeq(font_size, th.h2) THEN <<"H2">>
      ELSE IF QGeq(font_size, th.h3) THEN <<"H3">>
      ELSE IF is_bold /\ Len(t) < 100 /\ QGeq(font_size, 11) THEN <<"H2">>
      ELSE IF is_bold /\ Len(t) < 100 /\ QGeq(font_size, 9) THEN <<"H3">>
      ELSE <<>>

clean_heading_text(text) ==
  LET a == CollapseSpace(Strip(text))
      d == RunBack(a, Len(a), Digits)
      w == RunBack(a, Len(a) - d, Space)
      b == IF d >= 1 /\ w >= 1 THEN SubSeq(a, 1, Len(a) - d - w) ELSE a
      c == Without(b, Bullets)
      l == Run(c, 1, Space)
      e == IF l < Len(c) /\ c[l + 1] \in Dashes
             THEN SubSeq(c, l + 2 + Run(c, l + 2, Space), Len(c))
             ELSE c
  IN  Strip(e)

\* the stable list.sort(key=lambda h: (h.page, -h.font_size)): x goes after
\* every element whose key is not greater than its own
KeyGreater(x, y) ==
  \/ x.page > y.page
  \/ x.page = y.page /\ QGreater(y.font_size, x.font_size)

RECURSIVE InsertSorted(_, _)
InsertSorted(sorted, x) ==
  IF sorted = <<>> THEN <<x>>
  ELSE IF KeyGreater(Head(sorted), x) THEN <<x>> \o sorted
  ELSE <<Head(sorted)>> \o InsertSorted(Tail(sorted), x)

RECURSIVE SortHeadings(_)
SortHeadings(hs) ==
  IF hs = <<>> THEN <<>>
  ELSE InsertSorted(SortHeadings(SubSeq(hs, 1, Len(hs) - 1)), hs[Len(hs)])

\* the loop over headings with the set seen of (text, page) keys
RECURSIVE UniqueHeadings(_, _)
UniqueHeadings(hs, seen) ==
  IF hs = <<>> THEN <<>>
  ELSE LET key == <<Head(hs).text, Head(hs).page>>
       IN  IF key \notin seen
             THEN <<Head(hs)>> \o UniqueHeadings(Tail(hs), seen \cup {key})
             ELSE UniqueHeadings(Tail(hs), seen)

\* post_process_headings with the sort done before the duplicates are removed
post_process_sort_first(hs) ==
  IF hs = <<>> THEN hs ELSE UniqueHeadings(SortHeadings(hs), {})

post_process_headings(hs) ==
  IF hs = <<>> THEN hs ELSE SortHeadings(UniqueHeadings(hs, {}))

Document == <<"D","o","c","u","m","e","n","t">>

RECURSIVE OutlineOf(_)
OutlineOf(hs) ==
  IF hs = <<>> THEN <<>>
  ELSE <<[level |-> Head(hs).level, text |-> Head(hs).text,
          page |-> Head(hs).page]>> \o OutlineOf(Tail(hs))

\* t is the Optional title; None and the empty string are both falsy
format_output(t, hs) ==
  [title   |-> IF t = <<>> \/ t[1] = <<>> THEN Document ELSE t[1],
   outline |-> OutlineOf(hs)]

(***************************************************************************)
(* The title heuristic written under extract_title_from_first_page and     *)
(* merge_title_candidates.  No call reaches either one; they state what    *)
(* the title resolution computes from the first page.                      *)
(***************************************************************************)
StopList == {<<"p","a","g","e">>,
             <<"a","b","s","t","r","a","c","t">>,
             <<"i","n","t","r","o","d","u","c","t","i","o","n">>}

\* a candidate is [text, size, top]; float height * 0.3 is compared as 10 * top < 3 * height
RECURSIVE SpanCandidates(_, _, _)
SpanCandidates(spans, top, height) ==
  IF spans = <<>> THEN <<>>
  ELSE LET text == Strip(Head(spans).text)
           rest == SpanCandidates(Tail(spans), top, height)
       IN  IF Len(text) < 3 \/ LowerStr(text) \in StopList THEN rest
           ELSE IF 10 * top < 3 * height
             THEN <<[text |-> text, size |-> Head(spans).size, top |-> top]>> \o rest
             ELSE rest

RECURSIVE LineCandidates(_, _)
LineCandidates(lines, height) ==
  IF lines = <<>> THEN <<>>
  ELSE SpanCandidates(Head(lines).spans, Head(lines).top, height)
         \o LineCandidates(Tail(lines), height)

TitleCandidates(d) == LineCandidates(d[1].lines, d[1].height)

\* the stable sort(key=lambda x: (-x[1], x[2]))
RankedAfter(x, y) ==
  \/ x.size < y.size
  \/ x.size = y.size /\ x.top > y.top

RECURSIVE InsertRanked(_, _)
InsertRanked(sorted, x) ==
  IF sorted = <<>> THEN <<x>>
  ELSE IF RankedAfter(Head(sorted), x) THEN <<x>> \o sorted
  ELSE <<Head(sorted)>> \o InsertRanked(Tail(sorted), x)

RECURSIVE SortCandidates(_)
SortCandidates(cs) ==
  IF cs = <<>> THEN <<>>
  ELSE InsertRanked(SortCandidates(SubSeq(cs, 1, Len(cs) - 1)), cs[Len(cs)])

Abs(x) == IF x < 0 THEN 0 - x ELSE x

\* the merge loop: cs is sorted, merged holds the fragments up to cs[i - 1]
RECURSIVE MergeFrom(_, _, _)
MergeFrom(cs, i, merged) ==
  IF i > Len(cs) THEN merged
  ELSE IF Abs(cs[i].top - cs[i - 1].top) < 50
    THEN MergeFrom(cs, i + 1, merged \o <<" ">> \o cs[i].text)
    ELSE merged

merge_title_candidates(title_candidates) ==
  LET cs == SortCandidates(title_candidates)
  IN  Strip(MergeFrom(cs, 2, cs[1].text))

(***************************************************************************)
(* One line of the second pass (the body of "for line in block['lines']")  *)
(***************************************************************************)
Bold == <<"b","o","l","d">>

\* sub in s
Contains(s, sub) ==
  \E i \in 1..(Len(s) - Len(sub) + 1) : SubSeq(s, i, i + Len(sub) - 1) = sub

NonBlank(span) == Strip(span.text) # <<>>

\* "bold" in span["font"].lower() or span.get("flags", 0) & (1 << 4)
SpanBold(span) ==
  \/ Contains(LowerStr(span.font), Bold)
  \/ (span.flags \div 16) % 2 = 1

\* acc is [line_text, avg_font_size (still the sum), is_bold, font_name, span_count]
RECURSIVE ReadSpans(_, _)
ReadSpans(spans, acc) ==
  IF spans = <<>> THEN acc
  ELSE LET span == Head(spans)
       IN  IF NonBlank(span)
             THEN ReadSpans(Tail(spans),
                    [line_text  |-> acc.line_text \o span.text,
                     sum        |-> acc.sum + span.size,
                     is_bold    |-> acc.is_bold \/ SpanBold(span),
                     font_name  |-> span.font,
                     span_count |-> acc.span_count + 1])
             ELSE ReadSpans(Tail(spans), acc)

\* the HeadingInfo the line appends to headings: a sequence of 0 or 1 element
LineHeading(th, line, page_no) ==
  LET acc == ReadSpans(line.spans,
               [line_text |-> <<>>, sum |-> 0, is_bold |-> FALSE,
                font_name |-> <<>>, span_count |-> 0])
      avg_font_size == IF acc.span_count > 0
                         THEN Quot(acc.sum, acc.span_count) ELSE Quot(0, 1)
      line_text == clean_heading_text(acc.line_text)
      is_potential_heading ==
        \/ is_heading_by_pattern(line_text)
        \/ QGt(avg_font_size, 10)
        \/ acc.is_bold
        \/ IsUpperStr(line_text)
      heading_level ==
        classify_heading_level(th, avg_font_size, acc.is_bold, line_text, page_no)
  IN  IF Len(line_text) < 2 \/ Len(line_text) > 200 THEN <<>>
      ELSE IF is_potential_heading /\ heading_level # <<>>
        THEN <<[level     |-> heading_level[1],
                text      |-> line_text,
                page      |-> page_no,
                font_size |-> avg_font_size,
                font_name |-> acc.font_name,
                is_bold   |-> acc.is_bold]>>
        ELSE <<>>

(***************************************************************************)
(* The first pass: font statistics and the thresholds                      *)
(***************************************************************************)
RECURSIVE SpanSizes(_)
SpanSizes(spans) ==
  IF spans = <<>> THEN <<>>
  ELSE (IF NonBlank(Head(spans)) THEN <<Head(spans).size>> ELSE <<>>)
         \o SpanSizes(Tail(spans))

\* the sizes one page appends to all_font_sizes
RECURSIVE PageSizes(_)
PageSizes(lines) ==
  IF lines = <<>> THEN <<>>
  ELSE SpanSizes(Head(lines).spans) \o PageSizes(Tail(lines))

\* sorted(set(all_font_sizes), reverse=True)
RECURSIVE SortedDesc(_)
SortedDesc(S) ==
  IF S = {} THEN <<>>
  ELSE LET m == CHOOSE x \in S : \A y \in S : y <= x
       IN  <<m>> \o SortedDesc(S \ {m})

SizeSet(sizes) == {sizes[i] : i \in DOMAIN sizes}

\* the thresholds after "if all_font_sizes:"
Calibrated(th, sizes) ==
  LET sorted_sizes == SortedDesc(SizeSet(sizes))
  IN  IF sizes # <<>> /\ Len(sorted_sizes) >= 4
        THEN [th EXCEPT !.h1 = sorted_sizes[2],
                        !.h2 = sorted_sizes[3],
                        !.h3 = sorted_sizes[4]]
        ELSE th

(***************************************************************************)
(* process_single_pdf                                                      *)
(***************************************************************************)
Min(a, b) == IF a < b THEN a ELSE b

\* Sections without the [:5] slice
SectionsUncut(hs) ==
  [i \in 1..Len(hs) |->
     [heading |-> hs[i].text, page |-> hs[i].page, score |-> 90]]

\* the sections of headings[:5]; the score 0.90 is counted in hundredths
Sections(hs) ==
  [i \in 1..Min(5, Len(hs)) |->
     [heading |-> hs[i].text, page |-> hs[i].page, score |-> 90]]

\* pdf_reader.metadata.title.strip() when the metadata has a non-empty title
extract_title_from_metadata(raw) ==
  IF raw # <<>> /\ raw[1] # <<>> THEN <<Strip(raw[1])>> ELSE <<>>

Falsy(t) == t = <<>> \/ t[1] = <<>>

(***************************************************************************)
(* Inputs: what the layout collaborator returns                            *)
(***************************************************************************)
\* "Report Title"
T_ReportTitle == <<"R","e","p","o","r","t"," ","T","i","t","l","e">>

\* "2.1 Background"
T_Background == <<"2",".","1"," ","B","a","c","k","g","r","o","u","n","d">>

\* "1.1 Overview"
T_Overview == <<"1",".","1"," ","O","v","e","r","v","i","e","w">>

\* "Methods"
T_Methods == <<"M","e","t","h","o","d","s">>

\* "12"
T_Twelve == <<"1","2">>

\* "1. Scope"
T_Scope == <<"1","."," ","S","c","o","p","e">>

\* "1.1.1 Detail"
T_Detail == <<"1",".","1",".","1"," ","D","e","t","a","i","l">>

\* "Chapter 1 Intro"
T_ChapterIntro == <<"C","h","a","p","t","e","r"," ","1"," ","I","n","t","r","o">>

\* "see text"
T_SeeText == <<"s","e","e"," ","t","e","x","t">>

\* "  "
T_Blank == <<" "," ">>

\* "3. "
T_Three == <<"3","."," ">>

\* "Results 7"
T_Results7 == <<"R","e","s","u","l","t","s"," ","7">>

\* "Abstract"
T_Abstract == <<"A","b","s","t","r","a","c","t">>

\* " Memo "
T_Memo == <<" ","M","e","m","o"," ">>

\* "Arial"
Arial == <<"A","r","i","a","l">>

\* "Arial-BoldMT"
ArialBold == <<"A","r","i","a","l","-","B","o","l","d","M","T">>

Span(text, size, font, flags) ==
  [text |-> text, size |-> size, font |-> font, flags |-> flags]

Line(spans, top) == [spans |-> spans, top |-> top]

Page(lines) == [height |-> 800, lines |-> lines]

\* the lines the generated pages are made of
MethodsBold12 == <<Span(T_Methods, 12, ArialBold, 0)>>

Methods14 == <<Span(T_Methods, 14, Arial, 0)>>

Twelve14 == <<Span(T_Twelve, 14, Arial, 4)>>

GenLines == {MethodsBold12, Methods14, Twelve14}

MaxLines == 2

MaxBatch == 2

\* every page of at most MaxLines generated lines, 40 units apart from the top
RECURSIVE SpanLists(_)
SpanLists(n) ==
  IF n = 0 THEN {<<>>}
  ELSE LET shorter == SpanLists(n - 1)
       IN  shorter \cup {Append(l, g) : l \in shorter, g \in GenLines}

GenPages ==
  {Page([i \in DOMAIN l |-> Line(l[i], 40 * i)]) : l \in SpanLists(MaxLines)}

\* the document of the end-to-end example
D_EndToEnd ==
  <<Page(<<Line(<<Span(T_ReportTitle, 20, Arial, 0)>>, 80)>>),
    Page(<<Line(<<Span(T_Background, 9, Arial, 0)>>, 100)>>)>>

\* a readable document in which no line is a heading under the default
\* thresholds, with a blank bold span
D_Plain ==
  <<Page(<<Line(<<Span(T_SeeText, 9, Arial, 0)>>, 300),
           Line(<<Span(T_Blank, 30, ArialBold, 16)>>, 340)>>)>>

\* a first page with a stop-listed span, a two-fragment title, a fragment 80
\* units lower and a line below the upper 30%; it has 4 distinct sizes
D_Titled ==
  <<Page(<<Line(<<Span(T_Abstract, 22, Arial, 0)>>, 40),
           Line(<<Span(T_ReportTitle, 20, Arial, 0)>>, 80),
           Line(<<Span(T_Methods, 20, Arial, 0)>>, 120),
           Line(<<Span(T_SeeText, 9, Arial, 0)>>, 200),
           Line(<<Span(T_Scope, 16, Arial, 0)>>, 300)>>)>>

\* seven headings on two pages, the larger fonts late on each page, and a
\* line of two spans
D_Many ==
  <<Page(<<Line(<<Span(T_Scope, 9, Arial, 0)>>, 100),
           Line(<<Span(T_Overview, 8, Arial, 0)>>, 300),
           Line(<<Span(T_Background, 9, Arial, 0)>>, 400),
           Line(<<Span(T_Methods, 14, Arial, 0)>>, 500)>>),
    Page(<<Line(<<Span(T_Detail, 9, Arial, 0)>>, 100),
           Line(<<Span(T_ChapterIntro, 9, Arial, 0)>>, 200),
           Line(<<Span(T_Three, 11, Arial, 16), Span(T_Blank, 30, Arial, 0),
                  Span(T_Results7, 12, Arial, 0)>>, 300)>>)>>

Docs == {<<p>> : p \in GenPages} \cup {D_EndToEnd, D_Plain, D_Titled, D_Many}

\* metadata.title as PyPDF2 reads it: none, blank, or a padded title
MetaRaw == {<<>>, <<T_Blank>>, <<T_Memo>>}

FileSeqs(kinds) ==
  UNION {[1..n -> kinds] : n \in 0..MaxBatch}

(***************************************************************************)
(* State                                                                   *)
(*   driver               "main" (process_pdfs.main) or "merge"            *)
(*                        (the module body of mergeOutput.py)              *)
(*   files, idx           the files of the loop and how many it has taken  *)
(*   pc                   the position: "loop" between two documents, then *)
(*                        inside extract_headings_from_pdf "meta", "open", *)
(*                        "title", "scan", "classify", "extracted" once it *)
(*                        has returned, "end" after the loop               *)
(*   font_size_threshold  the extractor's attribute                        *)
(*   meta                 the metadata title PyPDF2 returned               *)
(*   title, headings, doc, all_font_sizes, page_num                        *)
(*                        the locals of extract_headings_from_pdf          *)
(*   line_num             the lines of page page_num already classified    *)
(*   raised               the except clause of the run was taken           *)
(*   ret                  the value extract_headings_from_pdf returned     *)
(*   output_file          the JSON process_pdf wrote for the document      *)
(*   outcomes             the values process_pdf returned to main          *)
(*   success_count        main's counter                                   *)
(*   documents            final_output["documents"] of mergeOutput         *)
(*   final_output         the documents mergeOutput wrote at its end       *)
(***************************************************************************)
VARIABLES driver, files, idx, pc, font_size_threshold, meta, title, headings,
          doc, all_font_sizes, page_num, line_num, raised, ret, output_file,
          outcomes, success_count, documents, final_output

vars == <<driver, files, idx, pc, font_size_threshold, meta, title, headings,
          doc, all_font_sizes, page_num, line_num, raised, ret, output_file,
          outcomes, success_count, documents, final_output>>

locals == <<meta, title, headings, doc, all_font_sizes, page_num, line_num,
            raised, ret>>

results == <<output_file, outcomes, success_count, documents, final_output>>

NoReturn == [title |-> <<>>, headings |-> <<>>]

\* main: glob("*.pdf") yields PDF files only; mergeOutput: os.listdir yields
\* any file, the loop keeps those that end with ".pdf"
Init ==
  /\ driver \in {"main", "merge"}
  /\ files \in (IF driver = "main" THEN FileSeqs({"pdf"})
                                   ELSE FileSeqs({"pdf", "txt"}))
  /\ idx = 0
  /\ pc = "loop"
  /\ font_size_threshold = DefaultThresholds
  /\ meta = <<>>
  /\ title = <<>>
  /\ headings = <<>>
  /\ doc = <<>>
  /\ all_font_sizes = <<>>
  /\ page_num = 0
  /\ line_num = 0
  /\ raised = FALSE
  /\ ret = NoReturn
  /\ output_file = <<>>
  /\ outcomes = <<>>
  /\ success_count = 0
  /\ documents = <<>>
  /\ final_output = <<>>

\* the locals of a fresh call
EnterExtract ==
  /\ meta' = <<>>
  /\ title' = <<>>
  /\ headings' = <<>>
  /\ doc' = <<>>
  /\ all_font_sizes' = <<>>
  /\ page_num' = 0
  /\ line_num' = 0
  /\ raised' = FALSE
  /\ ret' = NoReturn

\* main: the next pdf_file of the loop; process_pdf calls extract_headings_from_pdf
\* on the one extractor of the batch
MainNext ==
  /\ driver = "main"
  /\ pc = "loop"
  /\ idx < Len(files)
  /\ idx' = idx + 1
  /\ pc' = "meta"
  /\ EnterExtract
  /\ output_file' = <<>>
  /\ UNCHANGED <<driver, files, font_size_threshold, outcomes, success_count,
                 documents, final_output>>

\* main: no PDF file, or the loop is over
MainEnd ==
  /\ driver = "main"
  /\ pc = "loop"
  /\ idx = Len(files)
  /\ pc' = "end"
  /\ UNCHANGED <<driver, files, idx, font_size_threshold, locals, results>>

\* mergeOutput: a file that ends with ".pdf"; process_single_pdf makes a new extractor
MergeNext ==
  /\ driver = "merge"
  /\ pc = "loop"
  /\ idx < Len(files)
  /\ files[idx + 1] = "pdf"
  /\ idx' = idx + 1
  /\ pc' = "meta"
  /\ font_size_threshold' = DefaultThresholds
  /\ EnterExtract
  /\ UNCHANGED <<driver, files, results>>

\* mergeOutput: any other file is passed over
MergeSkip ==
  /\ driver = "merge"
  /\ pc = "loop"
  /\ idx < Len(files)
  /\ files[idx + 1] # "pdf"
  /\ idx' = idx + 1
  /\ UNCHANGED <<driver, files, pc, font_size_threshold, locals, results>>

\* mergeOutput: the loop is over, the combined output is written
MergeEnd ==
  /\ driver = "merge"
  /\ pc = "loop"
  /\ idx = Len(files)
  /\ pc' = "end"
  /\ final_output' = <<documents>>
  /\ UNCHANGED <<driver, files, idx, font_size_threshold, locals, output_file,
                 outcomes, success_count, documents>>

\* title = self.extract_title_from_metadata(pdf_path); headings = []
ExtractMeta ==
  /\ pc = "meta"
  /\ \E raw \in MetaRaw :
       /\ meta' = extract_title_from_metadata(raw)
       /\ title' = extract_title_from_metadata(raw)
  /\ headings' = <<>>
  /\ pc' = "open"
  /\ UNCHANGED <<driver, files, idx, font_size_threshold, doc, all_font_sizes,
                 page_num, line_num, raised, ret, results>>

\* doc = fitz.open(pdf_path)
OpenDoc ==
  /\ pc = "open"
  /\ \E d \in Docs : doc' = d
  /\ pc' = "title"
  /\ UNCHANGED <<driver, files, idx, font_size_threshold, meta, title, headings,
                 all_font_sizes, page_num, line_num, raised, ret, results>>

\* if not title: title = self.extract_title_from_first_page(doc); all_font_sizes = []
FirstPage ==
  /\ pc = "title"
  /\ title' = IF Falsy(title) THEN extract_title_from_first_page(doc) ELSE title
  /\ all_font_sizes' = <<>>
  /\ page_num' = 0
  /\ pc' = "scan"
  /\ UNCHANGED <<driver, files, idx, font_size_threshold, meta, headings, doc,
                 line_num, raised, ret, results>>

\* first pass, one page: the size of every non-blank span is appended
ScanPage ==
  /\ pc = "scan"
  /\ page_num < Len(doc)
  /\ all_font_sizes' = all_font_sizes \o PageSizes(doc[page_num + 1].lines)
  /\ page_num' = page_num + 1
  /\ UNCHANGED <<driver, files, idx, pc, font_size_threshold, meta, title,
                 headings, doc, line_num, raised, ret, results>>

\* Calibrate taken as soon as one page has been scanned
CalibrateEarly ==
  /\ pc = "scan"
  /\ page_num >= 1
  /\ font_size_threshold' = Calibrated(font_size_threshold, all_font_sizes)
  /\ pc' = "classify"
  /\ page_num' = 0
  /\ line_num' = 0
  /\ UNCHANGED <<driver, files, idx, meta, title, headings, doc, all_font_sizes,
                 raised, ret, results>>

\* the first loop is over: the thresholds are updated, the second loop starts
Calibrate ==
  /\ pc = "scan"
  /\ page_num = Len(doc)
  /\ font_size_threshold' = Calibrated(font_size_threshold, all_font_sizes)
  /\ pc' = "classify"
  /\ page_num' = 0
  /\ line_num' = 0
  /\ UNCHANGED <<driver, files, idx, meta, title, headings, doc, all_font_sizes,
                 raised, ret, results>>

\* second pass, one line
ClassifyLine ==
  /\ pc = "classify"
  /\ page_num < Len(doc)
  /\ line_num < Len(doc[page_num + 1].lines)
  /\ headings' = headings \o LineHeading(font_size_threshold,
                                doc[page_num + 1].lines[line_num + 1],
                                page_num + 1)
  /\ line_num' = line_num + 1
  /\ UNCHANGED <<driver, files, idx, pc, font_size_threshold, meta, title, doc,
                 all_font_sizes, page_num, raised, ret, results>>

\* second pass, the lines of the page are done
NextPage ==
  /\ pc = "classify"
  /\ page_num < Len(doc)
  /\ line_num = Len(doc[page_num + 1].lines)
  /\ page_num' = page_num + 1
  /\ line_num' = 0
  /\ UNCHANGED <<driver, files, idx, pc, font_size_threshold, meta, title,
                 headings, doc, all_font_sizes, raised, ret, results>>

\* doc.close(); headings = self.post_process_headings(headings); return title, headings
Finish ==
  /\ pc = "classify"
  /\ page_num = Len(doc)
  /\ ret' = [title |-> title, headings |-> post_process_headings(headings)]
  /\ pc' = "extracted"
  /\ UNCHANGED <<driver, files, idx, font_size_threshold, meta, title, headings,
                 doc, all_font_sizes, page_num, line_num, raised, results>>

\* Except without the except clause: the exception leaves
\* extract_headings_from_pdf; process_pdf catches it and returns False,
\* process_single_pdf and the loop of mergeOutput do not
ExceptPropagates ==
  /\ \/ pc = "open"
     \/ pc \in {"scan", "classify"} /\ page_num < Len(doc)
  /\ raised' = TRUE
  /\ pc' = IF driver = "main" THEN "loop" ELSE "aborted"
  /\ outcomes' = IF driver = "main" THEN Append(outcomes, FALSE) ELSE outcomes
  /\ UNCHANGED <<driver, files, idx, font_size_threshold, meta, title, headings,
                 doc, all_font_sizes, page_num, line_num, ret, output_file,
                 success_count, documents, final_output>>

\* fitz.open, doc[page_num], get_text or a span lookup raises inside the try:
\* except Exception: return None, []
Except ==
  /\ \/ pc = "open"
     \/ pc \in {"scan", "classify"} /\ page_num < Len(doc)
  /\ raised' = TRUE
  /\ ret' = NoReturn
  /\ pc' = "extracted"
  /\ UNCHANGED <<driver, files, idx, font_size_threshold, meta, title, headings,
                 doc, all_font_sizes, page_num, line_num, results>>

\* process_pdf: format_output, the file is written, return True; main counts it
ProcessPdfWrite ==
  /\ driver = "main"
  /\ pc = "extracted"
  /\ output_file' = <<format_output(ret.title, ret.headings)>>
  /\ outcomes' = Append(outcomes, TRUE)
  /\ success_count' = success_count + 1
  /\ pc' = "loop"
  /\ UNCHANGED <<driver, files, idx, font_size_threshold, locals, documents,
                 final_output>>

\* process_pdf: open(output_path, 'w') or json.dump raises: return False
ProcessPdfWriteFails ==
  /\ driver = "main"
  /\ pc = "extracted"
  /\ outcomes' = Append(outcomes, FALSE)
  /\ pc' = "loop"
  /\ UNCHANGED <<driver, files, idx, font_size_threshold, locals, output_file,
                 success_count, documents, final_output>>

\* process_single_pdf returns; mergeOutput appends the result
ProcessSingleReturn ==
  /\ driver = "merge"
  /\ pc = "extracted"
  /\ documents' = Append(documents,
                    [filename |-> idx, sections |-> Sections(ret.headings)])
  /\ pc' = "loop"
  /\ UNCHANGED <<driver, files, idx, font_size_threshold, locals, output_file,
                 outcomes, success_count, final_output>>

Next ==
  \/ MainNext
  \/ MainEnd
  \/ MergeNext
  \/ MergeSkip
  \/ MergeEnd
  \/ ExtractMeta
  \/ OpenDoc
  \/ FirstPage
  \/ ScanPage
  \/ Calibrate
  \/ ClassifyLine
  \/ NextPage
  \/ Finish
  \/ Except
  \/ ProcessPdfWrite
  \/ ProcessPdfWriteFails
  \/ ProcessSingleReturn

Spec == Init /\ [][Next]_vars

(***************************************************************************)
(* Properties                                                              *)
(***************************************************************************)
SpansOf(d) ==
  UNION {UNION {{d[p].lines[l].spans[k] : k \in DOMAIN d[p].lines[l].spans}
                 : l \in DOMAIN d[p].lines}
          : p \in DOMAIN d}

\* the distinct font sizes among the non-blank spans of a document
DistinctSizes(d) == {sp.size : sp \in {x \in SpansOf(d) : NonBlank(x)}}

\* the number of non-blank spans of a document
NonBlankCount(d) ==
  Cardinality({pos \in UNION {UNION {{<<p, l, k>> : k \in DOMAIN d[p].lines[l].spans}
                                       : l \in DOMAIN d[p].lines}
                               : p \in DOMAIN d}
                : NonBlank(d[pos[1]].lines[pos[2]].spans[pos[3]])})

KeyOf(h) == <<h.text, h.page>>

\* the first index of hs that holds the key of h
FirstIndex(hs, h) == CHOOSE k \in DOMAIN hs :
                       /\ KeyOf(hs[k]) = KeyOf(h)
                       /\ \A m \in 1..(k - 1) : KeyOf(hs[m]) # KeyOf(h)

RECURSIVE PickInOrder(_, _, _)
PickInOrder(hs, i, keep) ==
  IF i > Len(hs) THEN <<>>
  ELSE (IF i \in keep THEN <<hs[i]>> ELSE <<>>) \o PickInOrder(hs, i + 1, keep)

\* the candidates in the order of their lines, each key at its first occurrence
FirstOccurrences(hs) ==
  PickInOrder(hs, 1, {i \in DOMAIN hs :
                        \A j \in 1..(i - 1) : KeyOf(hs[j]) # KeyOf(hs[i])})

\* s holds the first 5 entries of hs (all of them when there are fewer), each
\* with its text, its page and the score 0.90
FirstFiveOf(s, hs) ==
  /\ Len(s) <= 5
  /\ Len(s) = Min(5, Len(hs))
  /\ \A i \in DOMAIN s :
       s[i] = [heading |-> hs[i].text, page |-> hs[i].page, score |-> 90]

\* out holds the entries of hs by ascending page, then descending font size,
\* entries of equal page and size in the order they have in hs
OutlineOrderOf(out, hs) ==
  /\ Len(out) = Len(hs)
  /\ {out[i] : i \in DOMAIN out} = {hs[i] : i \in DOMAIN hs}
  /\ \A i, j \in DOMAIN out :
       i < j =>
         /\ out[i].page <= out[j].page
         /\ out[i].page = out[j].page =>
              ~QGreater(out[j].font_size, out[i].font_size)
         /\ (out[i].page = out[j].page /\ QEqual(out[i].font_size, out[j].font_size))
              => FirstIndex(hs, out[i]) < FirstIndex(hs, out[j])

\* a document of the loop has been handled and the next one has not begun
Handled == pc = "loop" /\ idx > 0

Written == driver = "main" /\ Handled /\ output_file # <<>>

\* C1: while the lines of a document with fewer than 4 distinct font sizes are
\* classified in a batch of main(), the thresholds are the defaults
\* h1 = 14.0, h2 = 12.0, h3 = 10.0, whatever documents came before it.
C1_FewSizesKeepDefaults ==
  (driver = "main" /\ pc = "classify" /\ Cardinality(DistinctSizes(doc)) < 4)
    => /\ font_size_threshold.h1 = 14
       /\ font_size_threshold.h2 = 12
       /\ font_size_threshold.h3 = 10

\* C2: no entry of the outline extract_headings_from_pdf returns is noise.
C2_NoNoiseInOutline ==
  pc = "extracted" =>
    \A i \in DOMAIN ret.headings : ~is_noise(ret.headings[i].text)

\* C3: a document whose processing raised is told apart from a readable
\* document without headings: process_pdf neither returns True nor writes
\* {title: "Document", outline: []}, and process_single_pdf does not return
\* the value it returns for a readable document without headings.
C3_FailureDistinct ==
  (Handled /\ raised) =>
    IF driver = "main"
      THEN /\ outcomes[Len(outcomes)] = FALSE
           /\ output_file # <<[title |-> Document, outline |-> <<>>]>>
      ELSE documents[Len(documents)].sections # <<>>

\* C4: without a non-empty metadata title, the title written is the one the
\* first-page heuristic resolves (candidates of the upper 30% ranked by size
\* descending then top ascending, merged while less than 50 units apart), and
\* it is "Document" only when no candidate remains.
C4_TitleFromFirstPage ==
  (Written /\ ~raised /\ Falsy(meta)) =>
    output_file[1].title =
      IF TitleCandidates(doc) = <<>>
        THEN Document
        ELSE merge_title_candidates(TitleCandidates(doc))

\* C5: the two-page document "Report Title" (size 20, top 10%) / "2.1 Background"
\* (size 9, not bold) without metadata title produces exactly the title
\* "Report Title" and the outline [{H2, "2.1 Background", 2}].
C5_EndToEnd ==
  (Written /\ ~raised /\ meta = <<>> /\ doc = D_EndToEnd) =>
    output_file[1] =
      [title   |-> T_ReportTitle,
       outline |-> <<[level |-> "H2", text |-> T_Background, page |-> 2]>>]

PatternMatches(i, t) ==
  IF i = 1 THEN MatchChapter(Strip(t))
  ELSE IF i = 2 THEN MatchNum1(Strip(t))
  ELSE IF i = 3 THEN MatchNum2(Strip(t))
  ELSE MatchNum3(Strip(t))

Numbered(t) == \E i \in 1..4 : PatternMatches(i, t)

\* the level of the first of the four numbering patterns that matches t
PatternLevel(t) ==
  <<"H1", "H1", "H2", "H3">>[CHOOSE i \in 1..4 :
                               /\ PatternMatches(i, t)
                               /\ \A j \in 1..(i - 1) : ~PatternMatches(j, t)]

NumberedTexts == {T_ChapterIntro, T_Scope, T_Overview, T_Background, T_Detail}

\* C7: a text that matches a numbering pattern gets the level of the first
\* matching pattern, whatever the font size, the bold flag and the thresholds
\* in effect; "1.1 Overview" at size 8.0, not bold, is H2.  The thresholds
\* take a new value only on entering the classification pass, so the sizes
\* and bold flags are tried there.
C7_PatternBeforeFont ==
  /\ \A i \in DOMAIN headings :
       Numbered(headings[i].text) =>
         headings[i].level = PatternLevel(headings[i].text)
  /\ (pc = "classify" /\ page_num = 0 /\ line_num = 0) =>
       /\ \A t \in NumberedTexts, fs \in 6..22, b \in BOOLEAN :
            classify_heading_level(font_size_threshold, Quot(fs, 1), b, t, 1)
              = <<PatternLevel(t)>>
       /\ classify_heading_level(font_size_threshold, Quot(8, 1), FALSE,
                                 T_Overview, 1) = <<"H2">>

\* "1.1 Overview" at size 8, not bold, was classified H2 under calibrated
\* thresholds that are all above 8
C7_Witness ==
  /\ pc = "classify"
  /\ font_size_threshold # DefaultThresholds
  /\ font_size_threshold.h3 > 8
  /\ \E i \in DOMAIN headings :
       /\ headings[i].text = T_Overview
       /\ headings[i].font_size = Quot(8, 1)
       /\ ~headings[i].is_bold
       /\ headings[i].level = "H2"

\* C8: no two entries of the returned outline share (text, page); the entry
\* kept for a key is the first candidate with that key in input order, with
\* its level and font size; every candidate's key is in the outline.
C8_UniqueFirstKept ==
  (pc = "extracted" /\ ~raised) =>
    /\ \A i, j \in DOMAIN ret.headings :
         i # j => KeyOf(ret.headings[i]) # KeyOf(ret.headings[j])
    /\ \A i \in DOMAIN ret.headings :
         ret.headings[i] = headings[FirstIndex(headings, ret.headings[i])]
    /\ \A k \in DOMAIN headings :
         \E i \in DOMAIN ret.headings : KeyOf(ret.headings[i]) = KeyOf(headings[k])

\* two candidates with one key, the first the smaller and the lower level,
\* collapsed into the first
C8_Witness ==
  /\ pc = "extracted"
  /\ ~raised
  /\ Len(ret.headings) = 1
  /\ \E k, m \in DOMAIN headings :
       /\ k < m
       /\ KeyOf(headings[k]) = KeyOf(headings[m])
       /\ headings[k].level = "H2"
       /\ headings[m].level = "H1"
       /\ QGreater(headings[m].font_size, headings[k].font_size)
       /\ ret.headings[1] = headings[k]

PdfCount(n) == Cardinality({i \in 1..n : files[i] = "pdf"})

\* the disjunction of the guards of the actions of Next
NextEnabled ==
  \/ pc = "loop" /\ idx <= Len(files)
  \/ pc \in {"meta", "open", "title", "extracted"}
  \/ pc = "scan" /\ page_num <= Len(doc)
  \/ /\ pc = "classify"
     /\ page_num <= Len(doc)
     /\ page_num < Len(doc) => line_num <= Len(doc[page_num + 1].lines)

Rank(p) ==
  IF p = "meta" THEN 1
  ELSE IF p = "open" THEN 2
  ELSE IF p = "title" THEN 3
  ELSE IF p = "scan" THEN 4
  ELSE IF p = "classify" THEN 5
  ELSE IF p = "extracted" THEN 6
  ELSE IF p = "loop" THEN 7
  ELSE 8

\* every step moves the batch forward: to a later file or a later position of
\* the file, or to a later page or line of the pass
Advances ==
  LET a == 8 * idx + Rank(pc)
      b == 8 * idx' + Rank(pc')
  IN  \/ a < b
      \/ a = b /\ page_num < page_num'
      \/ a = b /\ page_num = page_num' /\ line_num < line_num'

\* C9: a document that raises never stops the batch: short of its end the loop
\* always has a next step and every step moves it forward, every file taken
\* so far has its own outcome, and the end comes only after every file has
\* been taken.
C9_FailuresIsolated ==
  /\ [](/\ pc = "end" \/ NextEnabled
        /\ pc \in {"loop", "end"} =>
             IF driver = "main"
               THEN Len(outcomes) = idx
               ELSE Len(documents) = PdfCount(idx)
        /\ pc = "end" => idx = Len(files))
  /\ [][Advances]_vars

\* a document has just raised and another one of the batch is still to come
C9_Witness ==
  /\ Handled
  /\ raised
  /\ idx < Len(files)
  /\ files[idx + 1] = "pdf"

\* C10: when classification begins every non-blank span of every page has
\* been enumerated; the thresholds change only in the step from the first
\* pass to the second (or with a new extractor between two documents), and
\* never during the classification pass.
C10_TwoPasses ==
  [][/\ pc' = "classify" =>
          /\ Len(all_font_sizes') = NonBlankCount(doc')
          /\ SizeSet(all_font_sizes') = DistinctSizes(doc')
     /\ font_size_threshold' # font_size_threshold =>
          \/ pc = "scan" /\ pc' = "classify"
          \/ pc = "loop"
     /\ pc = "classify" => font_size_threshold' = font_size_threshold]_vars

\* the second page of a two-page document is being classified under the
\* thresholds the first pass calibrated
C10_Witness ==
  /\ pc = "classify"
  /\ Len(doc) = 2
  /\ page_num = 1
  /\ line_num >= 1
  /\ font_size_threshold # DefaultThresholds
  /\ driver = "merge"

====
